---- MODULE Spec2Model ----
(***************************************************************************)
(* conjunction.py: a fixed-step scan of the angular separation of two      *)
(* objects over a time window, keeping the smallest and the largest        *)
(* separation seen and the instant of each.                                *)
(*                                                                         *)
(* Time is counted in ticks (TicksPerSecond ticks to a second) so that an  *)
(* ephem.Date carrying a fraction of a second (ephem.now()) differs from   *)
(* its string form, which is rendered to the whole second (the docstring   *)
(* of conjunction.py, lines 28-33).  Separations are counted in units of   *)
(* pi / PiUnits radians.  Strings are sequences of one-character strings.  *)
(***************************************************************************)
EXTENDS Integers, Sequences, FiniteSets, TLC

VARIABLES
    args_objects,     \* args.objects: the names given on the command line
    args_duration,    \* args.duration
    args_resolution,  \* args.resolution
    objects,          \* the list of resolved bodies
    object,           \* the loop variable of line 126 (read again at line 188)
    start, duration, resolution,
    a, b,             \* the two bodies, each with the date it was last computed at
    t, end,
    min, max,         \* <<separation, instant>>
    observer_date,    \* observer.date, the oracle's time cursor
    sep,
    samples,          \* the set of <<sep, t>> the loop body has compared
    queried,          \* the set of <<body, date>> the oracle was asked for
    out,              \* the lines printed so far
    pc, err,
    tokens, s, seconds, ppc   \* strToSeconds alone: its input and its result

vars == <<args_objects, args_duration, args_resolution, objects, object, start,
          duration, resolution, a, b, t, end, min, max, observer_date, sep,
          samples, queried, out, pc, err, tokens, s, seconds, ppc>>

scanVars == <<args_objects, args_duration, args_resolution, objects, object,
              start, duration, resolution, a, b, t, end, min, max,
              observer_date, sep, samples, queried, out, pc, err>>

parseVars == <<tokens, s, seconds, ppc>>

----------------------------------------------------------------------------
(* Bounds of the model *)

TicksPerSecond == 2
PiUnits == 3
MaxTokens == 4

----------------------------------------------------------------------------
(* strToSeconds (lines 64-87) *)

DigitVal ==
    [c \in {"0", "1", "2", "3", "4", "5", "6", "7", "8", "9"} |->
        CASE c = "0" -> 0 [] c = "1" -> 1 [] c = "2" -> 2 [] c = "3" -> 3
          [] c = "4" -> 4 [] c = "5" -> 5 [] c = "6" -> 6 [] c = "7" -> 7
          [] c = "8" -> 8 [] c = "9" -> 9]

IsDigit(c) == c \in DOMAIN DigitVal

\* int(m.group(1)): the decimal value of a run of digits
RECURSIVE IntOf(_)
IntOf(run) ==
    IF run = <<>> THEN 0
    ELSE 10 * IntOf(SubSeq(run, 1, Len(run) - 1)) + DigitVal[run[Len(run)]]

\* the last index of the greedy [0-9]+ starting at index i
RunEnd(str, i) ==
    CHOOSE j \in i..Len(str) :
        /\ \A k \in i..j : IsDigit(str[k])
        /\ j = Len(str) \/ ~IsDigit(str[j + 1])

\* the start indices at which "([0-9]+)<unit>" matches
MatchStarts(str, unit) ==
    {i \in 1..Len(str) :
        /\ IsDigit(str[i])
        /\ RunEnd(str, i) < Len(str)
        /\ str[RunEnd(str, i) + 1] = unit}

\* re.search("([0-9]+)<unit>", s): group 1 of the leftmost match, or <<>> for None
reSearch(str, unit) ==
    IF MatchStarts(str, unit) = {} THEN <<>>
    ELSE LET i == CHOOSE x \in MatchStarts(str, unit) :
                      \A y \in MatchStarts(str, unit) : x <= y
         IN  SubSeq(str, i, RunEnd(str, i))

strToSeconds_HoursAsMinutes(str) ==
    LET d == reSearch(str, "d")
        h == reSearch(str, "h")
        m == reSearch(str, "m")
        x == reSearch(str, "s")
    IN  (IF d # <<>> THEN IntOf(d) * 24 * 60 * 60 ELSE 0)
      + (IF h # <<>> THEN IntOf(h) * 60 ELSE 0)
      + (IF m # <<>> THEN IntOf(m) * 60 ELSE 0)
      + (IF x # <<>> THEN IntOf(x) ELSE 0)

strToSeconds(str) ==
    LET d == reSearch(str, "d")
        h == reSearch(str, "h")
        m == reSearch(str, "m")
        x == reSearch(str, "s")
    IN  (IF d # <<>> THEN IntOf(d) * 24 * 60 * 60 ELSE 0)
      + (IF h # <<>> THEN IntOf(h) * 60 * 60 ELSE 0)
      + (IF m # <<>> THEN IntOf(m) * 60 ELSE 0)
      + (IF x # <<>> THEN IntOf(x) ELSE 0)

\* str.replace(" ", "") (lines 161, 166)
StripSpaces(str) == SelectSeq(str, LAMBDA c : c # " ")

----------------------------------------------------------------------------
(* ephem.Date values and angles *)

\* a date that was never set: a body's position before its first compute()
NoDate == -1

\* str(ephem.Date): the date to the nearest whole second
DateStr(d) ==
    ((2 * d + TicksPerSecond) \div (2 * TicksPerSecond)) * TicksPerSecond

\* float(n) / float(24 * 60 * 60) days, as ticks (lines 193, 208)
SecondsToTicks(n) == n * TicksPerSecond

\* math.pi and 2 * math.pi, in separation units
Pi == PiUnits
TwoPi == 2 * PiUnits

\* what ephem.separation can return
Seps == 0..Pi

\* math.degrees(x), in arcseconds
degrees(x) == (x * 180 * 3600) \div PiUnits

\* float(dd) succeeds
CanFloat(dd) == dd \in Int

\* the int 0 that ddToDms returns when float(dd) raises
NotAString == [isStr |-> FALSE, degrees |-> 0, minutes |-> 0, seconds |-> 0]

ddToDms_NeverFloat(dd) == NotAString

\* ddToDms (lines 92-104): '%s degrees %s minutes %s seconds'
ddToDms(dd) ==
    IF ~CanFloat(dd) THEN NotAString
    ELSE [isStr   |-> TRUE,
          degrees |-> dd \div 3600,
          minutes |-> (dd % 3600) \div 60,
          seconds |-> (dd % 3600) % 60]

\* one printed line
Line(tag, angle, at) == [tag |-> tag, angle |-> angle, at |-> at]
Plain(tag) == Line(tag, NotAString, NoDate)

Tags(lines) == {lines[i].tag : i \in 1..Len(lines)}

----------------------------------------------------------------------------
(* Resolving the objects (lines 110-139) *)

solar == {"Sun", "Moon", "Mercury", "Venus", "Mars", "Jupiter", "Saturn",
          "Uranus", "Neptune", "Pluto", "Phobos", "Deimos", "Io", "Europa",
          "Ganymede", "Callisto", "Mimas", "Enceladus", "Tethys", "Dione",
          "Rhea", "Titan", "Hyperion", "Iapetus", "Ariel", "Umbriel", "Titania",
          "Oberon", "Miranda"}

\* some of the names of ephem.stars.db
stars == {"Sirius", "Vega"}

\* A name is the sequence of its "/"-separated parts: name.split("/").
IsSolar(name) == Len(name) = 1 /\ name[1] \in solar
IsStar(name) == Len(name) = 1 /\ name[1] \in stars

\* ra,dec = object.split("/") raises ValueError unless there are two parts
Resolvable(name) == IsSolar(name) \/ IsStar(name) \/ Len(name) = 2

Body(name) ==
    [name |-> name,
     kind |-> IF IsSolar(name) THEN "solar"
              ELSE IF IsStar(name) THEN "star" ELSE "fixed",
     at   |-> NoDate]

NoBody == [name |-> <<>>, kind |-> "none", at |-> NoDate]

\* the builtin `object`, which the name `object` means until line 126 rebinds it
BuiltinObject == <<"<type 'object'>">>

----------------------------------------------------------------------------
(* Command lines *)

ObjectArgs ==
    { <<>>,
      << <<"Moon">> >>,
      << <<"Jupiter">>, <<"Moon">> >>,
      << <<"Sirius">>, <<"5:30", "-10:20">> >>,
      << <<"Moon">>, <<"Betelgeuse?">> >>,
      << <<"Sun">>, <<"Moon">>, <<"Mars">> >> }

DurationArgs ==
    { <<>>, <<"1", "m">>, <<"2", " ", "m">>, <<"9", "0", "s">> }

ResolutionArgs ==
    { <<>>, <<"3", "0", "s">>, <<"1", "m">>, <<"2", "m">> }

\* the sub-second part of a date: ephem.now(), or a date given with a fraction
Clock == 0..(TicksPerSecond - 1)

----------------------------------------------------------------------------
(* The script, top to bottom *)

Init ==
    /\ args_objects \in ObjectArgs
    /\ args_duration \in DurationArgs
    /\ args_resolution \in ResolutionArgs
    /\ objects = <<>>
    /\ object = BuiltinObject
    /\ start = 0 /\ duration = 0 /\ resolution = 0
    /\ a = NoBody /\ b = NoBody
    /\ t = 0 /\ end = 0
    /\ min = <<0, 0>> /\ max = <<0, 0>>
    /\ observer_date = NoDate
    /\ sep = 0
    /\ samples = {}
    /\ queried = {}
    /\ out = <<>>
    /\ pc = "resolve"
    /\ err = "none"
    /\ tokens = <<>> /\ s = <<>> /\ seconds = 0 /\ ppc = "off"

Raise(e) == pc' = "error" /\ err' = e

\* lines 126-139: the whole loop over args.objects
ResolveObjects ==
    /\ pc = "resolve"
    /\ LET n   == Len(args_objects)
           bad == {i \in 1..n : ~Resolvable(args_objects[i])}
       IN  IF bad = {}
           THEN /\ objects' = [i \in 1..n |-> Body(args_objects[i])]
                /\ object' = IF n = 0 THEN object ELSE args_objects[n]
                /\ pc' = "setup"
                /\ err' = err
           ELSE LET k == CHOOSE i \in bad : \A j \in bad : i <= j
                IN  /\ objects' = [i \in 1..(k - 1) |-> Body(args_objects[i])]
                    /\ object' = args_objects[k]
                    /\ Raise("ValueError")
    /\ UNCHANGED <<args_objects, args_duration, args_resolution, start, duration,
                   resolution, a, b, t, end, min, max, observer_date, sep,
                   samples, queried, out>>
    /\ UNCHANGED parseVars

\* lines 144-185: observer, start, duration, resolution, and the setup block
Setup ==
    /\ pc = "setup"
    /\ \E now \in Clock : observer_date' = now
    /\ \E st \in Clock : start' = st
    /\ duration' = strToSeconds(StripSpaces(args_duration))
    /\ resolution' = strToSeconds(StripSpaces(args_resolution))
    /\ out' = Append(out, Plain("setup"))
    /\ pc' = "check"
    /\ UNCHANGED <<args_objects, args_duration, args_resolution, objects, object,
                   a, b, t, end, min, max, sep, samples, queried, err>>
    /\ UNCHANGED parseVars

\* lines 187-188: the print evaluates len(object), the loop variable of line 126
CheckObjects ==
    /\ pc = "check"
    /\ IF Len(objects) # 2
       THEN IF object = BuiltinObject
            THEN Raise("TypeError") /\ out' = out
            ELSE /\ out' = Append(out, Plain("warning"))
                 /\ pc' = "index"
                 /\ err' = err
       ELSE pc' = "index" /\ err' = err /\ out' = out
    /\ UNCHANGED <<args_objects, args_duration, args_resolution, objects, object,
                   start, duration, resolution, a, b, t, end, min, max,
                   observer_date, sep, samples, queried>>
    /\ UNCHANGED parseVars

\* lines 190-191
IndexObjects ==
    /\ pc = "index"
    /\ IF Len(objects) = 0
       THEN Raise("IndexError") /\ a' = a /\ b' = b
       ELSE IF Len(objects) = 1
       THEN Raise("IndexError") /\ a' = objects[1] /\ b' = b
       ELSE a' = objects[1] /\ b' = objects[2] /\ pc' = "init" /\ err' = err
    /\ UNCHANGED <<args_objects, args_duration, args_resolution, objects, object,
                   start, duration, resolution, t, end, min, max,
                   observer_date, sep, samples, queried, out>>
    /\ UNCHANGED parseVars

\* lines 192-195
ScanInit ==
    /\ pc = "init"
    /\ t' = start
    /\ end' = start + SecondsToTicks(duration)
    /\ min' = <<TwoPi, start>>
    /\ max' = <<0, start>>
    /\ pc' = "while"
    /\ UNCHANGED <<args_objects, args_duration, args_resolution, objects, object,
                   start, duration, resolution, a, b, observer_date, sep,
                   samples, queried, out, err>>
    /\ UNCHANGED parseVars

loopVars == <<args_objects, args_duration, args_resolution, objects, object,
              start, duration, resolution, end, out>>

WhileTest_Inclusive ==
    /\ pc = "while"
    /\ pc' = IF t <= end THEN "date" ELSE "report"
    /\ UNCHANGED <<loopVars, a, b, t, min, max, observer_date, sep, samples,
                   queried, err>>
    /\ UNCHANGED parseVars

\* line 197
WhileTest ==
    /\ pc = "while"
    /\ pc' = IF t < end THEN "date" ELSE "report"
    /\ UNCHANGED <<loopVars, a, b, t, min, max, observer_date, sep, samples,
                   queried, err>>
    /\ UNCHANGED parseVars

SetDate_Skipped ==
    /\ pc = "date"
    /\ pc' = "compute_a"
    /\ UNCHANGED <<loopVars, a, b, t, min, max, observer_date, sep, samples,
                   queried, err>>
    /\ UNCHANGED parseVars

\* line 198
SetDate ==
    /\ pc = "date"
    /\ observer_date' = DateStr(t)
    /\ pc' = "compute_a"
    /\ UNCHANGED <<loopVars, a, b, t, min, max, sep, samples, queried, err>>
    /\ UNCHANGED parseVars

\* line 199
ComputeA ==
    /\ pc = "compute_a"
    /\ a' = [a EXCEPT !.at = observer_date]
    /\ queried' = queried \cup {<<"a", observer_date>>}
    /\ pc' = "compute_b"
    /\ UNCHANGED <<loopVars, b, t, min, max, observer_date, sep, samples, err>>
    /\ UNCHANGED parseVars

\* line 200
ComputeB ==
    /\ pc = "compute_b"
    /\ b' = [b EXCEPT !.at = observer_date]
    /\ queried' = queried \cup {<<"b", observer_date>>}
    /\ pc' = "separation"
    /\ UNCHANGED <<loopVars, a, t, min, max, observer_date, sep, samples, err>>
    /\ UNCHANGED parseVars

\* lines 199-200: compute() raises
OracleError ==
    /\ pc \in {"compute_a", "compute_b"}
    /\ Raise("OracleError")
    /\ UNCHANGED <<loopVars, a, b, t, min, max, observer_date, sep, samples,
                   queried>>
    /\ UNCHANGED parseVars

\* line 201
Separation ==
    /\ pc = "separation"
    /\ \E x \in Seps : sep' = x
    /\ pc' = "compare"
    /\ UNCHANGED <<loopVars, a, b, t, min, max, observer_date, samples, queried,
                   err>>
    /\ UNCHANGED parseVars

Compare_NonStrict ==
    /\ pc = "compare"
    /\ samples' = samples \cup {<<sep, t>>}
    /\ min' = IF sep <= min[1] THEN <<sep, t>> ELSE min
    /\ max' = IF sep >= max[1] THEN <<sep, t>> ELSE max
    /\ pc' = "advance"
    /\ UNCHANGED <<loopVars, a, b, t, observer_date, sep, queried, err>>
    /\ UNCHANGED parseVars

Compare_Elif ==
    /\ pc = "compare"
    /\ samples' = samples \cup {<<sep, t>>}
    /\ min' = IF sep < min[1] THEN <<sep, t>> ELSE min
    /\ max' = IF ~(sep < min[1]) /\ sep > max[1] THEN <<sep, t>> ELSE max
    /\ pc' = "advance"
    /\ UNCHANGED <<loopVars, a, b, t, observer_date, sep, queried, err>>
    /\ UNCHANGED parseVars

\* lines 203-206
Compare ==
    /\ pc = "compare"
    /\ samples' = samples \cup {<<sep, t>>}
    /\ min' = IF sep < min[1] THEN <<sep, t>> ELSE min
    /\ max' = IF sep > max[1] THEN <<sep, t>> ELSE max
    /\ pc' = "advance"
    /\ UNCHANGED <<loopVars, a, b, t, observer_date, sep, queried, err>>
    /\ UNCHANGED parseVars

Advance_NoStep ==
    /\ pc = "advance"
    /\ t' = t
    /\ pc' = "while"
    /\ UNCHANGED <<loopVars, a, b, min, max, observer_date, sep, samples,
                   queried, err>>
    /\ UNCHANGED parseVars

\* line 208
Advance ==
    /\ pc = "advance"
    /\ t' = t + SecondsToTicks(resolution)
    /\ pc' = "while"
    /\ UNCHANGED <<loopVars, a, b, min, max, observer_date, sep, samples,
                   queried, err>>
    /\ UNCHANGED parseVars

reportVars == <<args_objects, args_duration, args_resolution, objects, object,
                start, duration, resolution, a, b, t, end, min, max,
                observer_date, sep, samples, queried>>

\* line 210
PrintHeader ==
    /\ pc = "report"
    /\ out' = Append(out, Plain("results"))
    /\ pc' = "print_min"
    /\ UNCHANGED <<reportVars, err>>
    /\ UNCHANGED parseVars

\* "<label>: " + ddToDms(...) + " at " + str(...): str + int raises TypeError
PrintExtremum(label, record, next) ==
    LET dms == ddToDms(degrees(record[1]))
    IN  IF dms.isStr
        THEN /\ out' = Append(out, Line(label, dms, DateStr(record[2])))
             /\ pc' = next
             /\ err' = err
        ELSE Raise("TypeError") /\ out' = out

\* line 211
PrintMinimum ==
    /\ pc = "print_min"
    /\ PrintExtremum("Minimum", min, "print_max")
    /\ UNCHANGED reportVars
    /\ UNCHANGED parseVars

\* line 212
PrintMaximum ==
    /\ pc = "print_max"
    /\ PrintExtremum("Maximum", max, "done")
    /\ UNCHANGED reportVars
    /\ UNCHANGED parseVars

Next ==
    \/ ResolveObjects
    \/ Setup
    \/ CheckObjects
    \/ IndexObjects
    \/ ScanInit
    \/ WhileTest
    \/ SetDate
    \/ ComputeA
    \/ ComputeB
    \/ OracleError
    \/ Separation
    \/ Compare
    \/ Advance
    \/ PrintHeader
    \/ PrintMinimum
    \/ PrintMaximum

Spec == Init /\ [][Next]_vars

\* The interpreter runs the script on: a statement that can run, runs.
FairSpec == Spec /\ WF_vars(Next)

----------------------------------------------------------------------------
(* strToSeconds on its own: every string of up to MaxTokens tokens *)

Units == {"d", "h", "m", "s"}

\* <int><unit> tokens, and text that is no token (a bare number, a stray letter)
UnitTokens ==
    {[text |-> <<"2", u>>, n |-> 2, unit |-> u] : u \in Units}
    \cup {[text |-> <<"1", "0", u>>, n |-> 10, unit |-> u] : u \in Units}

OtherTokens ==
    {[text |-> <<"0">>, n |-> 0, unit |-> ""],
     [text |-> <<"x">>, n |-> 0, unit |-> ""]}

TokenSeqs ==
    UNION {[1..n -> UnitTokens \cup OtherTokens] : n \in 0..MaxTokens}

RECURSIVE Text(_)
Text(toks) ==
    IF toks = <<>> THEN <<>> ELSE Head(toks).text \o Text(Tail(toks))

ParseInit ==
    /\ tokens \in TokenSeqs
    /\ s = Text(tokens)
    /\ seconds = 0
    /\ ppc = "input"
    /\ args_objects = <<>> /\ args_duration = <<>> /\ args_resolution = <<>>
    /\ objects = <<>>
    /\ object = BuiltinObject
    /\ start = 0 /\ duration = 0 /\ resolution = 0
    /\ a = NoBody /\ b = NoBody
    /\ t = 0 /\ end = 0
    /\ min = <<0, 0>> /\ max = <<0, 0>>
    /\ observer_date = NoDate
    /\ sep = 0
    /\ samples = {}
    /\ queried = {}
    /\ out = <<>>
    /\ pc = "off"
    /\ err = "none"

\* seconds = strToSeconds(s)
CallStrToSeconds ==
    /\ ppc = "input"
    /\ seconds' = strToSeconds(s)
    /\ ppc' = "parsed"
    /\ UNCHANGED <<tokens, s>>
    /\ UNCHANGED scanVars

ParseNext == CallStrToSeconds

ParseSpec == ParseInit /\ [][ParseNext]_vars

----------------------------------------------------------------------------
(* Vocabulary of the properties *)

Least(S) == CHOOSE x \in S : \A y \in S : x <= y
Greatest(S) == CHOOSE x \in S : \A y \in S : x >= y

Sampled == {x[2] : x \in samples}
SepsSeen == {x[1] : x \in samples}
EarliestAt(v) == Least({x[2] : x \in {y \in samples : y[1] = v}})

BodyPcs == {"date", "compute_a", "compute_b", "separation", "compare", "advance"}
LoopPcs == BodyPcs \cup {"while"}
EndedPcs == {"report", "print_min", "print_max", "done"}
LoopEnded == pc \in EndedPcs
Scanning == pc \in LoopPcs \cup EndedPcs \/ err = "OracleError"

ResultTags == {"results", "Minimum", "Maximum"}

\* start + k * step for k = 0, 1, 2, ... below end
Grid ==
    {g \in {start + k * SecondsToTicks(resolution) : k \in 0..duration} : g < end}

Window == {x \in start..end : x < end}

----------------------------------------------------------------------------
(* Properties *)

\* C1: when the loop has ended after at least one sample, min holds the smallest
\* sampled separation with the earliest instant it was sampled at, and max the
\* largest sampled separation with the earliest instant it was sampled at.
C1_ExtremaAreEarliest ==
    (LoopEnded /\ samples # {}) =>
        /\ min = <<Least(SepsSeen), EarliestAt(Least(SepsSeen))>>
        /\ max = <<Greatest(SepsSeen), EarliestAt(Greatest(SepsSeen))>>

\* the minimum recurs later and was kept at its first instant, which is not the
\* start; the maximum was met at the start
C1_Witness ==
    /\ pc = "done"
    /\ \E x \in samples : x[1] = min[1] /\ x[2] > min[2]
    /\ \E x \in samples : x[1] = max[1] /\ x[2] > max[2]
    /\ min[2] > start
    /\ max[2] = start
    /\ min[1] < max[1]

\* C2: with a step > 0, t grows by the step at every iteration, the loop is left
\* as soon as t >= end, and once the loop is entered the results are printed,
\* unless the oracle raises.
C2_ScanTerminates ==
    /\ [][(pc = "advance" /\ resolution > 0)
            => t' = t + SecondsToTicks(resolution) /\ t' > t]_vars
    /\ [][(pc = "while" /\ t >= end) => pc' = "report"]_vars
    /\ (pc = "while" /\ resolution > 0)
         ~> ((pc = "done" /\ {"Minimum", "Maximum"} \subseteq Tags(out))
             \/ err = "OracleError")

C2_Witness ==
    /\ pc = "done"
    /\ resolution > 0
    /\ Cardinality(Sampled) >= 3

\* C3 as stated: whenever duration < step (duration = 0 included), the loop body
\* has run exactly once when the loop ends, at start, and min and max both carry
\* that one separation with the timestamp start.
C3_OnceWheneverShorterThanStep ==
    (LoopEnded /\ duration < resolution) =>
        /\ Cardinality(samples) = 1
        /\ Sampled = {start}
        /\ min[1] = max[1] /\ {min[1]} = SepsSeen
        /\ min[2] = start /\ max[2] = start

\* C3 amended: for 0 < duration < step the loop body has run exactly once, at
\* start, and min and max both carry that one separation with the timestamp
\* start; for duration = 0 the body has not run at all and min and max are as
\* initialised.
C3_OnceWhenPositiveAndShorter ==
    /\ (LoopEnded /\ 0 < duration /\ duration < resolution) =>
          /\ Cardinality(samples) = 1
          /\ Sampled = {start}
          /\ min[1] = max[1] /\ {min[1]} = SepsSeen
          /\ min[2] = start /\ max[2] = start
    /\ (LoopEnded /\ duration = 0) =>
          /\ samples = {} /\ queried = {}
          /\ min = <<TwoPi, start>> /\ max = <<0, start>>

C3_Witness ==
    /\ pc = "done"
    /\ 0 < duration /\ duration < resolution
    /\ samples = {<<Pi, start>>}
    /\ max = <<Pi, start>>

Contribution(tok) ==
    tok.n * (CASE tok.unit = "d" -> 86400
               [] tok.unit = "h" -> 3600
               [] tok.unit = "m" -> 60
               [] tok.unit = "s" -> 1
               [] OTHER -> 0)

RECURSIVE SumOf(_)
SumOf(toks) ==
    IF toks = <<>> THEN 0 ELSE Contribution(Head(toks)) + SumOf(Tail(toks))

\* <int><unit> tokens only, no unit twice
OneTokenPerUnit(toks) ==
    /\ \A i \in 1..Len(toks) : toks[i].unit \in Units
    /\ \A i, j \in 1..Len(toks) : toks[i].unit = toks[j].unit => i = j

\* C5: for a string made of <int>d, <int>h, <int>m, <int>s tokens in any order,
\* each unit at most once, strToSeconds returns the sum of the tokens' seconds;
\* a string with none of the four patterns gives 0; the result is never negative.
C5_SumOfTokens ==
    ppc = "parsed" =>
        /\ OneTokenPerUnit(tokens) => seconds = SumOf(tokens)
        /\ (\A i \in 1..Len(tokens) : tokens[i].unit = "") => seconds = 0
        /\ seconds >= 0

\* "10s2h10d2m": all four units, out of order
C5_Witness ==
    /\ ppc = "parsed"
    /\ s = <<"1", "0", "s", "2", "h", "1", "0", "d", "2", "m">>
    /\ seconds = 10 + 2 * 3600 + 10 * 86400 + 2 * 60

\* C6: the loop is never entered with a step of 0.
C6_ZeroStepRejected == pc \in LoopPcs => resolution > 0

\* C7: when the number of resolved objects is not 2, the program has failed once
\* past the check of line 187: it has printed no warning, indexed no object,
\* asked the oracle nothing and printed no results line.
C7_TwoObjectsOrFail ==
    (Len(objects) # 2 /\ pc \notin {"off", "resolve", "setup", "check"}) =>
        /\ pc = "error"
        /\ a = NoBody /\ b = NoBody
        /\ queried = {}
        /\ Tags(out) \cap ({"warning"} \cup ResultTags) = {}

\* C8: a run that has failed has printed no results line (header, Minimum or
\* Maximum), and a run that has finished has printed all three and not failed.
C8_NoPartialResults ==
    /\ err # "none" <=> pc = "error"
    /\ pc = "error" => Tags(out) \cap ResultTags = {}
    /\ pc = "done" => ResultTags \subseteq Tags(out)

\* the oracle raised in the middle of a scan
C8_Witness ==
    /\ pc = "error"
    /\ err = "OracleError"
    /\ Cardinality(samples) >= 2
    /\ Tags(out) = {"setup"}

\* C9: the scan starts with min = (pi, start) and max = (0, start), and from then
\* on both separations lie in [0, pi] and the printed angles in [0, 180] degrees.
C9_SeededAtPi ==
    /\ (pc = "while" /\ samples = {}) => min = <<Pi, start>> /\ max = <<0, start>>
    /\ Scanning => min[1] \in 0..Pi /\ max[1] \in 0..Pi
    /\ \A i \in 1..Len(out) :
          out[i].tag \in {"Minimum", "Maximum"} =>
              /\ out[i].angle.degrees \in 0..180
              /\ out[i].angle.degrees = 180 =>
                    out[i].angle.minutes = 0 /\ out[i].angle.seconds = 0

\* C10: in every iteration observer.date is set from the current t before either
\* body is computed, both bodies are computed at that date before the separation
\* is taken, and t moves only after the comparison.
C10_OneInstantPerStep ==
    /\ [](pc \in {"compute_a", "compute_b"} => observer_date = DateStr(t))
    /\ [](pc \in {"compute_b", "separation", "compare"} => a.at = DateStr(t))
    /\ [](pc \in {"separation", "compare"} => b.at = DateStr(t))
    /\ [](pc \in {"separation", "compare"} =>
            {<<"a", DateStr(t)>>, <<"b", DateStr(t)>>} \subseteq queried)
    /\ [][t' # t => pc \in {"init", "advance"}]_vars
    /\ [][pc = "compare" => samples' = samples \cup {<<sep, t>>}]_vars

\* a later iteration, at an instant that is not a whole second
C10_Witness ==
    /\ pc = "compare"
    /\ samples # {}
    /\ t > start
    /\ DateStr(t) # t
    /\ a.at = DateStr(t) /\ b.at = DateStr(t)

====
